---- MODULE Spec2Model ----
(***************************************************************************)
(* Model of certbot_apache/_internal/parsernode_util.py:                   *)
(*   - parameters_from_string: the character scan that splits a directive  *)
(*     argument line into parameters (specification Spec / LiveSpec);      *)
(*   - validate_kwargs and the three *_kwargs helpers built on it          *)
(*     (specification SpecKw).                                             *)
(* A Python str is a sequence of one-character strings; Python None is     *)
(* the value None below.                                                   *)
(***************************************************************************)
EXTENDS Integers, Sequences, FiniteSets, TLC

\* ------------------------------------------------------------------------
\* Bounds
\* ------------------------------------------------------------------------
MaxLen == 6

\* longest input of the runs that check termination
MaxLiveLen == 5

\* longest whitespace string put around an input
MaxPad == 2

\* ------------------------------------------------------------------------
\* Characters
\* ------------------------------------------------------------------------
None == "None"
NoErr == "none"
SQ == "'"
DQ == "\""
BS == "\\"
SP == " "
Quotes == {DQ, SQ}
\* one character of each class the scan distinguishes: whitespace, the two
\* quote marks, the backslash, and an ordinary character
Alphabet == {SP, SQ, DQ, BS, "a"}

\* c.isspace(); the space stands for the whitespace class
IsSpace(c) == c = SP

Strings(n) == UNION {[1..k -> Alphabet] : k \in 0..n}

\* ------------------------------------------------------------------------
\* parameters_from_string, as a function of its argument
\* ------------------------------------------------------------------------
RECURSIVE LStrip(_)
LStrip(s) ==
    IF s # <<>> /\ IsSpace(Head(s)) THEN LStrip(Tail(s)) ELSE s

\* variant: word[1:], the closing delimiter stays in the parameter
Slice_KeepsClose(w) == IF Len(w) < 2 THEN <<>> ELSE SubSeq(w, 2, Len(w))

\* word[1:-1]
Slice(w) == IF Len(w) < 2 THEN <<>> ELSE SubSeq(w, 2, Len(w) - 1)

\* s.replace(c1 + c2, r): leftmost, non-overlapping occurrences
RECURSIVE Replace(_, _, _, _)
Replace(s, c1, c2, r) ==
    IF Len(s) < 2 THEN s
    ELSE IF s[1] = c1 /\ s[2] = c2
         THEN <<r>> \o Replace(SubSeq(s, 3, Len(s)), c1, c2, r)
         ELSE <<s[1]>> \o Replace(Tail(s), c1, c2, r)

\* variant: only the backslash-backslash replacement
Unescape_NoQuote(s, q) == Replace(s, BS, BS, BS)

\* .replace("\\\\", "\\").replace("\\" + quote, quote)
Unescape(s, q) == Replace(Replace(s, BS, BS, BS), BS, q, q)

\* variant: escape = (c == "\\"), the previous flag is ignored
NextEscape_Sticky(escape, c) == c = BS

\* escape = not escape and c == "\\"
NextEscape(escape, c) == ~escape /\ c = BS

InitScan ==
    [words |-> <<>>, word |-> <<>>, escape |-> FALSE, quote |-> None,
     err |-> NoErr]

\* variant: the buffer is flushed without the "if word" test
Buffer_NoEmptyTest(st, c) ==
    IF IsSpace(c) /\ st.quote = None
    THEN [st EXCEPT !.words = Append(st.words, st.word), !.word = <<>>]
    ELSE [st EXCEPT !.word = Append(st.word, c)]

\* variant: the buffer is not reset after a whitespace flush
Buffer_NoReset(st, c) ==
    IF IsSpace(c) /\ st.quote = None
    THEN [st EXCEPT !.words = IF st.word # <<>> THEN Append(st.words, st.word)
                                                 ELSE st.words]
    ELSE [st EXCEPT !.word = Append(st.word, c)]

\* variant: words.insert(0, word) instead of words.append(word)
Buffer_Prepends(st, c) ==
    IF IsSpace(c) /\ st.quote = None
    THEN [st EXCEPT !.words = IF st.word # <<>> THEN <<st.word>> \o st.words
                                                 ELSE st.words,
                    !.word = <<>>]
    ELSE [st EXCEPT !.word = Append(st.word, c)]

\* variant: word = c instead of word = "" after a whitespace flush
Buffer_KeepsSpace(st, c) ==
    IF IsSpace(c) /\ st.quote = None
    THEN [st EXCEPT !.words = IF st.word # <<>> THEN Append(st.words, st.word)
                                                 ELSE st.words,
                    !.word = <<c>>]
    ELSE [st EXCEPT !.word = Append(st.word, c)]

\* if c.isspace() and not quote: ... else: word += c
Buffer(st, c) ==
    IF IsSpace(c) /\ st.quote = None
    THEN [st EXCEPT !.words = IF st.word # <<>> THEN Append(st.words, st.word)
                                                 ELSE st.words,
                    !.word = <<>>]
    ELSE [st EXCEPT !.word = Append(st.word, c)]

\* variant: the elif tests only "c == quote", an escaped quote closes too
QuoteTransition_IgnoresEscape(st, c) ==
    IF st.quote = None /\ c \in Quotes
    THEN [st EXCEPT !.quote = c]
    ELSE IF c = st.quote
         THEN [st EXCEPT !.words = Append(st.words,
                                          Unescape(Slice(st.word), st.quote)),
                         !.word = <<>>,
                         !.quote = None]
         ELSE st

\* variant: the buffer is not reset when a quote closes
QuoteTransition_KeepsWord(st, c) ==
    IF st.quote = None /\ c \in Quotes
    THEN [st EXCEPT !.quote = c]
    ELSE IF c = st.quote /\ ~st.escape
         THEN [st EXCEPT !.words = Append(st.words,
                                          Unescape(Slice(st.word), st.quote)),
                         !.quote = None]
         ELSE st

\* variant: an empty quoted span emits nothing
QuoteTransition_SkipsEmpty(st, c) ==
    IF st.quote = None /\ c \in Quotes
    THEN [st EXCEPT !.quote = c]
    ELSE IF c = st.quote /\ ~st.escape
         THEN [st EXCEPT !.words = IF Slice(st.word) # <<>>
                                   THEN Append(st.words,
                                               Unescape(Slice(st.word), st.quote))
                                   ELSE st.words,
                         !.word = <<>>,
                         !.quote = None]
         ELSE st

\* variant: the elif tests only "not escape"
QuoteTransition_NoMatch(st, c) ==
    IF st.quote = None /\ c \in Quotes
    THEN [st EXCEPT !.quote = c]
    ELSE IF ~st.escape
         THEN IF st.quote = None
              THEN [st EXCEPT !.err = "TypeError"]
              ELSE [st EXCEPT !.words = Append(st.words,
                                               Unescape(Slice(st.word), st.quote)),
                              !.word = <<>>,
                              !.quote = None]
         ELSE st

\* if not quote and c in "\"\'": ... elif c == quote and not escape: ...
\* ("\\" + quote raises TypeError when quote is None)
QuoteTransition(st, c) ==
    IF st.quote = None /\ c \in Quotes
    THEN [st EXCEPT !.quote = c]
    ELSE IF c = st.quote /\ ~st.escape
         THEN IF st.quote = None
              THEN [st EXCEPT !.err = "TypeError"]
              ELSE [st EXCEPT !.words = Append(st.words,
                                               Unescape(Slice(st.word), st.quote)),
                              !.word = <<>>,
                              !.quote = None]
         ELSE st

\* one iteration of "for c in text"
LoopBody(st, c) ==
    LET s2 == QuoteTransition(Buffer(st, c), c)
    IN  IF s2.err # NoErr THEN s2
        ELSE [s2 EXCEPT !.escape = NextEscape(st.escape, c)]

RECURSIVE Scan(_, _)
Scan(st, s) ==
    IF s = <<>> \/ st.err # NoErr THEN st ELSE Scan(LoopBody(st, Head(s)), Tail(s))

\* variant: an open quote's delimiter is stripped by the final flush
EndFlush_StripsOpen(st) ==
    IF st.word # <<>>
    THEN [st EXCEPT !.words = Append(st.words, IF st.quote # None THEN Tail(st.word)
                                                                  ELSE st.word)]
    ELSE st

\* variant: the final flush without the "if word" test
EndFlush_NoEmptyTest(st) == [st EXCEPT !.words = Append(st.words, st.word)]

\* if word: words.append(word)
EndFlush(st) ==
    IF st.word # <<>> THEN [st EXCEPT !.words = Append(st.words, st.word)] ELSE st

ParametersFromString(s) == EndFlush(Scan(InitScan, LStrip(s))).words

\* ------------------------------------------------------------------------
\* validate_kwargs and the *_kwargs helpers: dictionaries
\* ------------------------------------------------------------------------
PyFalse == "False"
PyTrue == "True"
EmptyTuple == "()"
EmptyDict == "{}"

\* values a caller supplies (an explicit None included)
Supplied == {"x", None}

ParserNodeNames == <<"ancestor", "dirty", "filepath", "metadata">>
CommentNodeNames == <<"ancestor", "dirty", "filepath", "comment", "metadata">>
DirectiveNodeNames ==
    <<"ancestor", "dirty", "filepath", "name", "parameters", "enabled", "metadata">>

\* keys a caller may supply to the *_kwargs helpers
AllKeys == {"ancestor", "dirty", "filepath", "name", "comment", "parameters",
            "enabled", "metadata", "bogus"}

\* names used in direct calls of validate_kwargs
ReqNames == {"ancestor", "filepath", "bogus"}

MaxReq == 3

Dicts(K) == UNION {[S -> Supplied] : S \in SUBSET K}

NameLists(n) == UNION {[1..k -> ReqNames] : k \in 0..n}

\* variant: d[k] = v, a supplied value is overwritten
SetDefault_Overwrites(d, k, v) ==
    [x \in DOMAIN d \cup {k} |-> IF x = k THEN v ELSE d[x]]

\* d.setdefault(k, v)
SetDefault(d, k, v) ==
    [x \in DOMAIN d \cup {k} |-> IF x \in DOMAIN d THEN d[x] ELSE v]

\* d.pop(k) for a present key: the dictionary left
Pop(d, k) == [x \in DOMAIN d \ {k} |-> d[x]]

\* d[k] = v
SetItem(d, k, v) == [x \in DOMAIN d \cup {k} |-> IF x = k THEN v ELSE d[x]]

\* variant: leftover keys are not reported
UnknownLeft_Never(d) == FALSE

\* if kwargs:
UnknownLeft(d) == DOMAIN d # {}

\* if "metadata" in kwargs: kwargs.setdefault(<name>, None) ...
WithMetadataDefaults(d, names) ==
    IF "metadata" \in DOMAIN d
    THEN IF Len(names) = 2
         THEN SetDefault(SetDefault(d, names[1], None), names[2], None)
         ELSE SetDefault(d, names[1], None)
    ELSE d

\* parsernode_kwargs up to the call of validate_kwargs
ParserNodeDefaults(d) ==
    SetDefault(SetDefault(WithMetadataDefaults(d, <<"filepath">>),
                          "dirty", PyFalse),
               "metadata", EmptyDict)

\* commentnode_kwargs up to the call of validate_kwargs
CommentNodeDefaults(d) ==
    SetDefault(SetDefault(WithMetadataDefaults(d, <<"comment", "filepath">>),
                          "dirty", PyFalse),
               "metadata", EmptyDict)

\* directivenode_kwargs up to the call of validate_kwargs
DirectiveNodeDefaults(d) ==
    SetDefault(SetDefault(SetDefault(SetDefault(
        WithMetadataDefaults(d, <<"name", "filepath">>),
        "dirty", PyFalse), "enabled", PyTrue), "parameters", EmptyTuple),
        "metadata", EmptyDict)

NoReturn == [positional |-> <<>>, rest |-> <<>>]

\* ------------------------------------------------------------------------
\* State
\* ------------------------------------------------------------------------
\* input is the argument as passed and text its rebinding by lstrip; pos
\* counts the characters the for loop has consumed; qstart is a history
\* variable, the index in text of the character that last set quote; entry
\* is the dictionary on entry to validate_kwargs and given the one the
\* caller supplied.
VARIABLES input, text, pos, words, word, escape, quote, err, pc, qstart,
          fn, given, entry, kwargs, required_names, idx, validated_kwargs,
          raised, ret, kpc

tokvars == <<input, text, pos, words, word, escape, quote, err, pc, qstart>>

kwvars == <<fn, given, entry, kwargs, required_names, idx, validated_kwargs,
            raised, ret, kpc>>

vars == <<tokvars, kwvars>>

Cur == [words |-> words, word |-> word, escape |-> escape, quote |-> quote,
        err |-> err]

\* no *_kwargs call in progress
KwIdle ==
    /\ fn = "none"
    /\ given = <<>>
    /\ entry = <<>>
    /\ kwargs = <<>>
    /\ required_names = <<>>
    /\ idx = 0
    /\ validated_kwargs = <<>>
    /\ raised = NoErr
    /\ ret = NoReturn
    /\ kpc = "idle"

\* no parameters_from_string call in progress
TokIdle ==
    /\ input = <<>>
    /\ text = <<>>
    /\ pos = 0
    /\ words = <<>>
    /\ word = <<>>
    /\ escape = FALSE
    /\ quote = None
    /\ err = NoErr
    /\ pc = "idle"
    /\ qstart = 0

\* entry of parameters_from_string(input), len(input) <= n
TokInit(n) ==
    /\ input \in Strings(n)
    /\ text = input
    /\ pos = 0
    /\ words = InitScan.words
    /\ word = InitScan.word
    /\ escape = InitScan.escape
    /\ quote = InitScan.quote
    /\ err = InitScan.err
    /\ pc = "strip"
    /\ qstart = 0

Init == TokInit(MaxLen) /\ KwIdle

LiveInit == TokInit(MaxLiveLen) /\ KwIdle

\* text = text.lstrip()
Strip ==
    /\ pc = "strip"
    /\ text' = LStrip(text)
    /\ pc' = "loop"
    /\ UNCHANGED <<input, pos, words, word, escape, quote, err, qstart>>
    /\ UNCHANGED kwvars

\* one iteration of the for loop on the character text[pos + 1]
Step ==
    /\ pc = "loop"
    /\ pos < Len(text)
    /\ LET c == text[pos + 1]
           nxt == LoopBody(Cur, c)
       IN  /\ words' = nxt.words
           /\ word' = nxt.word
           /\ escape' = nxt.escape
           /\ quote' = nxt.quote
           /\ err' = nxt.err
           /\ pc' = IF nxt.err # NoErr THEN "raised" ELSE "loop"
           /\ qstart' = IF quote = None /\ nxt.quote # None THEN pos + 1 ELSE qstart
    /\ pos' = pos + 1
    /\ UNCHANGED <<input, text>>
    /\ UNCHANGED kwvars

\* loop exhausted: final flush and return tuple(words)
Flush ==
    /\ pc = "loop"
    /\ pos = Len(text)
    /\ words' = EndFlush(Cur).words
    /\ pc' = "done"
    /\ UNCHANGED <<input, text, pos, word, escape, quote, err, qstart>>
    /\ UNCHANGED kwvars

Next == Strip \/ Step \/ Flush

Spec == Init /\ [][Next]_vars

LiveSpec == LiveInit /\ [][Next]_vars /\ WF_vars(Next)

\* ------------------------------------------------------------------------
\* Calls of validate_kwargs, parsernode_kwargs, commentnode_kwargs and
\* directivenode_kwargs
\* ------------------------------------------------------------------------
Helpers == {"parsernode_kwargs", "commentnode_kwargs", "directivenode_kwargs"}

KwInit ==
    /\ TokIdle
    /\ \/ /\ fn = "validate_kwargs"
          /\ given \in Dicts(ReqNames)
          /\ required_names \in NameLists(MaxReq)
          /\ entry = given
          /\ kpc = "validate"
       \/ /\ fn \in Helpers
          /\ given \in Dicts(AllKeys)
          /\ required_names = <<>>
          /\ entry = <<>>
          /\ kpc = "call"
    /\ kwargs = given
    /\ idx = 0
    /\ validated_kwargs = <<>>
    /\ raised = NoErr
    /\ ret = NoReturn

\* the helper called with dictionary d (after its defaults) enters
\* validate_kwargs(d, names)
EnterValidate(d, names) ==
    /\ kwargs' = d
    /\ entry' = d
    /\ required_names' = names
    /\ idx' = 0
    /\ validated_kwargs' = <<>>
    /\ kpc' = "validate"
    /\ UNCHANGED <<fn, given, raised, ret>>
    /\ UNCHANGED tokvars

ParserNodeCall ==
    /\ kpc = "call"
    /\ fn = "parsernode_kwargs"
    /\ EnterValidate(ParserNodeDefaults(kwargs), ParserNodeNames)

CommentNodeCall ==
    /\ kpc = "call"
    /\ fn = "commentnode_kwargs"
    /\ EnterValidate(CommentNodeDefaults(kwargs), CommentNodeNames)

DirectiveNodeCall ==
    /\ kpc = "call"
    /\ fn = "directivenode_kwargs"
    /\ EnterValidate(DirectiveNodeDefaults(kwargs), DirectiveNodeNames)

\* one iteration of "for name in required_names": pop or raise TypeError
ValidateName ==
    /\ kpc = "validate"
    /\ idx < Len(required_names)
    /\ LET name == required_names[idx + 1]
       IN  IF name \in DOMAIN kwargs
           THEN /\ validated_kwargs' = SetItem(validated_kwargs, name, kwargs[name])
                /\ kwargs' = Pop(kwargs, name)
                /\ idx' = idx + 1
                /\ UNCHANGED <<raised, kpc>>
           ELSE /\ raised' = "Required keyword argument"
                /\ kpc' = "raised"
                /\ UNCHANGED <<validated_kwargs, kwargs, idx>>
    /\ UNCHANGED <<fn, given, entry, required_names, ret>>
    /\ UNCHANGED tokvars

\* after the loop: raise on leftover keys, else return validated_kwargs
\* (to the caller of validate_kwargs, or to the helper, which rebinds kwargs)
ValidateRest ==
    /\ kpc = "validate"
    /\ idx = Len(required_names)
    /\ IF UnknownLeft(kwargs)
       THEN /\ raised' = "Unknown keyword argument(s)"
            /\ kpc' = "raised"
            /\ UNCHANGED <<kwargs, ret>>
       ELSE IF fn = "validate_kwargs"
            THEN /\ ret' = [positional |-> <<>>, rest |-> validated_kwargs]
                 /\ kpc' = "done"
                 /\ UNCHANGED <<kwargs, raised>>
            ELSE /\ kwargs' = validated_kwargs
                 /\ kpc' = "return"
                 /\ UNCHANGED <<ret, raised>>
    /\ UNCHANGED <<fn, given, entry, required_names, idx, validated_kwargs>>
    /\ UNCHANGED tokvars

\* return kwargs["ancestor"], kwargs["dirty"], kwargs["filepath"], kwargs["metadata"]
ParserNodeReturn ==
    /\ kpc = "return"
    /\ fn = "parsernode_kwargs"
    /\ ret' = [positional |-> <<kwargs["ancestor"], kwargs["dirty"],
                                kwargs["filepath"], kwargs["metadata"]>>,
               rest |-> <<>>]
    /\ kpc' = "done"
    /\ UNCHANGED <<fn, given, entry, kwargs, required_names, idx,
                   validated_kwargs, raised>>
    /\ UNCHANGED tokvars

\* comment = kwargs.pop("comment"); return comment, kwargs
CommentNodeReturn ==
    /\ kpc = "return"
    /\ fn = "commentnode_kwargs"
    /\ kwargs' = Pop(kwargs, "comment")
    /\ ret' = [positional |-> <<kwargs["comment"]>>, rest |-> kwargs']
    /\ kpc' = "done"
    /\ UNCHANGED <<fn, given, entry, required_names, idx, validated_kwargs, raised>>
    /\ UNCHANGED tokvars

\* name, parameters, enabled = the three pops; return them and kwargs
DirectiveNodeReturn ==
    /\ kpc = "return"
    /\ fn = "directivenode_kwargs"
    /\ kwargs' = Pop(Pop(Pop(kwargs, "name"), "parameters"), "enabled")
    /\ ret' = [positional |-> <<kwargs["name"], kwargs["parameters"],
                                kwargs["enabled"]>>,
               rest |-> kwargs']
    /\ kpc' = "done"
    /\ UNCHANGED <<fn, given, entry, required_names, idx, validated_kwargs, raised>>
    /\ UNCHANGED tokvars

KwNext ==
    \/ ParserNodeCall
    \/ CommentNodeCall
    \/ DirectiveNodeCall
    \/ ValidateName
    \/ ValidateRest
    \/ ParserNodeReturn
    \/ CommentNodeReturn
    \/ DirectiveNodeReturn

SpecKw == KwInit /\ [][KwNext]_vars

\* ------------------------------------------------------------------------
\* Vocabulary of the properties
\* ------------------------------------------------------------------------
IsPrefix(s, t) == Len(s) <= Len(t) /\ SubSeq(t, 1, Len(s)) = s

Last(s) == s[Len(s)]

HasSpace(s) == \E i \in 1..Len(s) : IsSpace(s[i])

HasQuote(s) == \E i \in 1..Len(s) : s[i] \in Quotes

HasBackslash(s) == \E i \in 1..Len(s) : s[i] = BS

IsStringSeq(ws) ==
    \A i \in 1..Len(ws) : \A j \in 1..Len(ws[i]) : ws[i][j] \in Alphabet

\* the input without its leading whitespace
FirstNonSpace(s) ==
    CHOOSE i \in 1..(Len(s) + 1) :
        /\ \A j \in 1..(i - 1) : IsSpace(s[j])
        /\ i <= Len(s) => ~IsSpace(s[i])

Stripped(s) == SubSeq(s, FirstNonSpace(s), Len(s))

\* the maximal runs of non-whitespace characters of s, left to right
RunLen(s) ==
    CHOOSE n \in 0..Len(s) :
        /\ \A j \in 1..n : ~IsSpace(s[j])
        /\ n < Len(s) => IsSpace(s[n + 1])

RECURSIVE Runs(_)
Runs(s) ==
    IF s = <<>> THEN <<>>
    ELSE IF IsSpace(s[1]) THEN Runs(Tail(s))
    ELSE <<SubSeq(s, 1, RunLen(s))>> \o Runs(SubSeq(s, RunLen(s) + 1, Len(s)))

\* single left-to-right decode of the text between two delimiters q
RECURSIVE Decode(_, _)
Decode(s, q) ==
    IF s = <<>> THEN <<>>
    ELSE IF Len(s) >= 2 /\ s[1] = BS /\ s[2] = BS
         THEN <<BS>> \o Decode(SubSeq(s, 3, Len(s)), q)
    ELSE IF Len(s) >= 2 /\ s[1] = BS /\ s[2] = q
         THEN <<q>> \o Decode(SubSeq(s, 3, Len(s)), q)
    ELSE <<s[1]>> \o Decode(Tail(s), q)

\* " ".join(ws)
RECURSIVE Join(_)
Join(ws) ==
    IF ws = <<>> THEN <<>>
    ELSE IF Len(ws) = 1 THEN ws[1]
    ELSE ws[1] \o <<SP>> \o Join(Tail(ws))

\* the quote opened at text[qstart] stands at the start of a word
AtWordStart == qstart = 1 \/ (qstart > 1 /\ IsSpace(text[qstart - 1]))

\* the next scan step closes the active quote
Closing ==
    /\ pc = "loop"
    /\ pos < Len(text)
    /\ quote # None
    /\ text[pos + 1] = quote
    /\ ~escape

\* the scan step just taken closed a quoted span (the character scanned is a
\* quote mark and no quote is active after it)
JustClosed ==
    /\ pc = "loop"
    /\ pos > 0
    /\ text[pos] \in Quotes
    /\ quote = None

\* the next scan step flushes a non-empty buffer on whitespace
WhitespaceFlush ==
    /\ pc = "loop"
    /\ pos < Len(text)
    /\ quote = None
    /\ IsSpace(text[pos + 1])
    /\ word # <<>>

\* the characters of the buffer that were scanned before the active quote
\* opened (the buffer holds text[pos - Len(word) + 1 .. pos])
BarePrefix == SubSeq(word, 1, qstart - 1 - (pos - Len(word)))

\* ------------------------------------------------------------------------
\* C1: for every input the scan takes exactly one step per character of the
\* left-stripped input, then the final flush, and returns a sequence of
\* strings; no error state is reachable.
\* ------------------------------------------------------------------------
C1_TotalAndTerminates ==
    /\ [](/\ err = NoErr
          /\ pc \in {"strip", "loop", "done"}
          /\ pos <= Len(text)
          /\ pc # "strip" => text = Stripped(input)
          /\ pc = "done" => pos = Len(Stripped(input)) /\ IsStringSeq(words))
    /\ <>(pc = "done")

C1_Witness ==
    /\ pc = "done"
    /\ quote # None
    /\ escape
    /\ Len(words) = 2
    /\ words[1] = <<>>

\* ------------------------------------------------------------------------
\* C2: a quote opened at the start of a word and closed by the same quote
\* mark with escape pending false makes the closing step emit exactly one
\* parameter: the un-escaped text strictly between the two delimiters,
\* whitespace kept.
\* ------------------------------------------------------------------------
C2_SpanBetweenDelimiters ==
    [][(Closing /\ AtWordStart) =>
         words' = Append(words, Unescape(SubSeq(text, qstart + 1, pos), quote))]_vars

C2_Witness ==
    /\ JustClosed
    /\ AtWordStart
    /\ qstart > 1
    /\ Len(words) = 2
    /\ words[1] = <<"a">>
    /\ HasSpace(words[2])
    /\ words[2] = SubSeq(text, qstart + 1, pos - 1)

\* ------------------------------------------------------------------------
\* C3: an input without quote characters yields exactly its maximal runs of
\* non-whitespace characters, in order and unchanged; empty and
\* whitespace-only inputs yield the empty sequence.
\* ------------------------------------------------------------------------
C3_UnquotedRuns ==
    (pc = "done" /\ ~HasQuote(input)) =>
        /\ words = Runs(input)
        /\ (\A i \in 1..Len(input) : IsSpace(input[i])) => words = <<>>

C3_Witness ==
    /\ pc = "done"
    /\ ~HasQuote(input)
    /\ Len(words) >= 2
    /\ HasBackslash(words[1])
    /\ Len(input) > Len(Join(words))

\* ------------------------------------------------------------------------
\* C4: for a quoted span opened at the start of a word and closed, the
\* emitted parameter equals the single left-to-right decode of the text
\* between the delimiters.
\* ------------------------------------------------------------------------
C4_TwoPassEqualsDecode ==
    (JustClosed /\ AtWordStart) =>
        /\ words # <<>>
        /\ Last(words) = Decode(SubSeq(text, qstart + 1, pos - 1), text[pos])

C4_Witness ==
    /\ JustClosed
    /\ AtWordStart
    /\ text[pos] = SQ
    /\ Last(words) = <<"a", SQ, "a">>
    /\ HasBackslash(SubSeq(text, qstart + 1, pos - 1))

\* ------------------------------------------------------------------------
\* C5: every character scanned while no quote was active appears unchanged
\* in the output: a whitespace flush emits the buffer verbatim, and the
\* parameter emitted when a quote closes keeps, unchanged, the characters
\* of the buffer that were scanned before that quote opened.
\* ------------------------------------------------------------------------
C5_BareTextVerbatim ==
    [][/\ WhitespaceFlush => words' = Append(words, word)
       /\ Closing => (Len(words') = Len(words) + 1
                      /\ IsPrefix(BarePrefix, Last(words')))]_vars

\* ------------------------------------------------------------------------
\* C6: when the input ends while a quote is active, no error is raised and
\* the last parameter is the buffered word verbatim, from no later than the
\* opening quote mark to the end of the input.
\* ------------------------------------------------------------------------
C6_UnterminatedQuoteVerbatim ==
    (pc = "done" /\ quote # None) =>
        /\ err = NoErr
        /\ words # <<>>
        /\ Last(words) = word
        /\ text[qstart] = quote
        /\ Len(word) >= Len(text) - qstart + 1
        /\ word = SubSeq(text, Len(text) - Len(word) + 1, Len(text))

C6_Witness ==
    /\ pc = "done"
    /\ quote = SQ
    /\ qstart = 1
    /\ HasSpace(Last(words))
    /\ HasBackslash(Last(words))
    /\ Last(words)[1] = SQ

\* ------------------------------------------------------------------------
\* C7 (as stated): if no word of the output contains a whitespace or quote
\* character, joining the output with single spaces and tokenizing again
\* reproduces the output.
\* ------------------------------------------------------------------------
PlainWords(ws) == \A i \in 1..Len(ws) : ~HasSpace(ws[i]) /\ ~HasQuote(ws[i])

C7_RoundTripAsStated ==
    (pc = "done" /\ PlainWords(words)) => ParametersFromString(Join(words)) = words

\* C7 (amended): the same, when in addition no word of the output is empty.
C7_RoundTripNonEmpty ==
    (pc = "done" /\ PlainWords(words) /\ \A i \in 1..Len(words) : words[i] # <<>>)
        => ParametersFromString(Join(words)) = words

C7_Witness ==
    /\ pc = "done"
    /\ HasQuote(input)
    /\ PlainWords(words)
    /\ Len(words) = 2
    /\ \A i \in 1..Len(words) : words[i] # <<>>
    /\ HasBackslash(words[2])
    /\ Join(words) # input

\* ------------------------------------------------------------------------
\* C8: the emitted sequence only grows at its end: every step keeps the
\* parameters emitted so far as a prefix and appends at most one.
\* ------------------------------------------------------------------------
C8_WordsAppendOnly ==
    [][IsPrefix(words, words') /\ Len(words') <= Len(words) + 1]_vars

C8_Witness ==
    /\ pc = "done"
    /\ HasQuote(input)
    /\ quote = None
    /\ Len(words) = 3
    /\ words[1] # words[2]

\* ------------------------------------------------------------------------
\* C9 (as stated): validate_kwargs returns normally iff the key set of
\* kwargs equals the set of required_names, the result then maps each
\* required name to its supplied value; otherwise it raises TypeError:
\* "Required keyword argument" when a required name is absent, "Unknown
\* keyword argument(s)" only when every required name is present and extra
\* keys remain.
\* ------------------------------------------------------------------------
Range(s) == {s[i] : i \in 1..Len(s)}

NoRepeats(s) == \A i, j \in 1..Len(s) : s[i] = s[j] => i = j

ValidateReturned == kpc \in {"return", "done"}

ValidateRaised == kpc = "raised"

RequiredError == "Required keyword argument"

UnknownError == "Unknown keyword argument(s)"

ValidateContract ==
    /\ (ValidateReturned \/ ValidateRaised) =>
          (ValidateReturned <=> DOMAIN entry = Range(required_names))
    /\ ValidateReturned =>
          validated_kwargs = [n \in Range(required_names) |-> entry[n]]
    /\ ValidateRaised =>
          /\ raised \in {RequiredError, UnknownError}
          /\ raised = RequiredError <=>
                (\E n \in Range(required_names) : n \notin DOMAIN entry)
          /\ raised = UnknownError <=>
                /\ Range(required_names) \subseteq DOMAIN entry
                /\ DOMAIN entry \ Range(required_names) # {}

C9_ValidateAsStated == ValidateContract

\* C9 (amended): the same for every required_names list without a repeated
\* name.
C9_ValidateNoRepeats == NoRepeats(required_names) => ValidateContract

C9_Witness ==
    /\ fn = "validate_kwargs"
    /\ ValidateRaised
    /\ raised = RequiredError
    /\ NoRepeats(required_names)
    /\ Len(required_names) = 2
    /\ DOMAIN entry \ Range(required_names) # {}
    /\ DOMAIN entry \cap Range(required_names) # {}

\* ------------------------------------------------------------------------
\* C10: directivenode_kwargs succeeds iff the supplied keys are among its
\* seven names, 'ancestor' is supplied, and 'metadata' or both 'name' and
\* 'filepath' are supplied; on success supplied values are returned
\* unchanged and absent keys take their defaults. Likewise commentnode_kwargs
\* (with 'comment', no 'parameters'/'enabled') and parsernode_kwargs (with
\* 'filepath' alone), each over its own names.
\* ------------------------------------------------------------------------
CommonKeys == {"ancestor", "dirty", "filepath", "metadata"}

KeysOf(f) ==
    CASE f = "directivenode_kwargs" -> CommonKeys \cup {"name", "parameters", "enabled"}
      [] f = "commentnode_kwargs" -> CommonKeys \cup {"comment"}
      [] f = "parsernode_kwargs" -> CommonKeys

FromMetadata(f) ==
    CASE f = "directivenode_kwargs" -> {"name", "filepath"}
      [] f = "commentnode_kwargs" -> {"comment", "filepath"}
      [] f = "parsernode_kwargs" -> {"filepath"}

DefaultOf(k) ==
    CASE k = "dirty" -> PyFalse
      [] k = "enabled" -> PyTrue
      [] k = "parameters" -> EmptyTuple
      [] k = "metadata" -> EmptyDict
      [] OTHER -> None

Accepted(f) ==
    /\ DOMAIN given \subseteq KeysOf(f)
    /\ "ancestor" \in DOMAIN given
    /\ "metadata" \in DOMAIN given \/ FromMetadata(f) \subseteq DOMAIN given

Val(k) == IF k \in DOMAIN given THEN given[k] ELSE DefaultOf(k)

ExpectedReturn(f) ==
    CASE f = "directivenode_kwargs" ->
           [positional |-> <<Val("name"), Val("parameters"), Val("enabled")>>,
            rest |-> [k \in CommonKeys |-> Val(k)]]
      [] f = "commentnode_kwargs" ->
           [positional |-> <<Val("comment")>>,
            rest |-> [k \in CommonKeys |-> Val(k)]]
      [] f = "parsernode_kwargs" ->
           [positional |-> <<Val("ancestor"), Val("dirty"), Val("filepath"),
                             Val("metadata")>>,
            rest |-> <<>>]

C10_HelperKwargs ==
    (fn \in Helpers /\ kpc \in {"done", "raised"}) =>
        /\ kpc = "done" <=> Accepted(fn)
        /\ kpc = "done" => ret = ExpectedReturn(fn)
        /\ kpc = "raised" => raised \in {RequiredError, UnknownError}

C10_Witness ==
    /\ fn = "directivenode_kwargs"
    /\ kpc = "done"
    /\ DOMAIN given = {"ancestor", "metadata", "parameters"}
    /\ given["parameters"] = "x"
    /\ ret.positional = <<None, "x", PyTrue>>
    /\ ret.rest["dirty"] = PyFalse

\* ------------------------------------------------------------------------
\* C11: the active quote is always none, ' or "; while a quote is active, a
\* step clears it iff its character is the active quote mark and escape
\* pending is false; every other step leaves the active quote unchanged,
\* appends its character to the buffer and emits nothing.
\* ------------------------------------------------------------------------
InQuoteStep == pc = "loop" /\ pos < Len(text) /\ quote # None

C11_QuoteClosesOnlyOnMatch ==
    /\ [](quote \in {None, SQ, DQ})
    /\ [][InQuoteStep =>
            /\ quote' = None <=> (text[pos + 1] = quote /\ ~escape)
            /\ quote' # None =>
                  /\ quote' = quote
                  /\ word' = Append(word, text[pos + 1])
                  /\ words' = words]_vars

\* inside "...": an escaped ", a ', a space and a backslash were all buffered
C11_Witness ==
    /\ pc = "loop"
    /\ quote = DQ
    /\ words = <<>>
    /\ word = <<DQ, SQ, SP, BS, DQ>>

\* ------------------------------------------------------------------------
\* C12: whenever a quoted span closes, the first character of the buffered
\* word is the opening quote mark and the last is the closing one, so the
\* two characters dropped are exactly the delimiters and no other character
\* of the buffer is lost.
\* ------------------------------------------------------------------------
C12_DroppedAreDelimiters ==
    [][Closing =>
         LET w == Append(word, text[pos + 1])
         IN  /\ w[1] = quote
             /\ qstart = pos - Len(word) + 1
             /\ w[Len(w)] = quote
             /\ Slice(w) = SubSeq(text, qstart + 1, pos)]_vars

\* ------------------------------------------------------------------------
\* C13: after every scan step the escape flag is true iff the maximal run
\* of consecutive backslashes ending at the character just processed has
\* odd length, whether or not a quote opened or closed on the way.
\* ------------------------------------------------------------------------
RECURSIVE BackslashRun(_, _)
BackslashRun(s, p) ==
    IF p = 0 \/ s[p] # BS THEN 0 ELSE 1 + BackslashRun(s, p - 1)

C13_EscapeIsRunParity ==
    (pc \in {"loop", "done"} /\ pos > 0) =>
        (escape <=> BackslashRun(text, pos) % 2 = 1)

\* three backslashes inside an open quote: the flag is set again
C13_Witness ==
    /\ pc = "loop"
    /\ quote # None
    /\ pos >= 4
    /\ BackslashRun(text, pos) = 3
    /\ escape

\* ------------------------------------------------------------------------
\* C14: the step that closes a quoted span appends exactly one parameter
\* and leaves the buffer empty and no quote active; non-whitespace text
\* directly after the closing quote starts a new buffer, leaves the span's
\* parameter untouched, and is emitted as a separate, later parameter.
\* ------------------------------------------------------------------------
FollowedByText == pos < Len(text) /\ ~IsSpace(text[pos + 1])

C14_CloseFlushesAtOnce ==
    /\ [][/\ Closing => (/\ Len(words') = Len(words) + 1
                         /\ word' = <<>>
                         /\ quote' = None)
          /\ (JustClosed /\ FollowedByText) =>
                (/\ word' = <<text[pos + 1]>>
                 /\ words' = words)]_vars
    /\ []((JustClosed /\ FollowedByText) =>
             LET final == ParametersFromString(text)
             IN  /\ IsPrefix(words, final)
                 /\ Len(final) > Len(words))

\* 'a'a scanned to the end: the span and the text glued to it are two
\* parameters
C14_Witness ==
    /\ pc = "done"
    /\ Len(text) >= 4
    /\ text[1] \in Quotes
    /\ text[Len(text) - 1] = text[1]
    /\ ~HasSpace(text)
    /\ text[Len(text)] = "a"
    /\ Len(words) = 2
    /\ words[2] = <<"a">>

\* ------------------------------------------------------------------------
\* C15: a whitespace flush or the final flush never emits the empty string;
\* a closing step emits the empty string iff the buffer is just the opening
\* and the closing quote; so the empty parameters of the output are, one for
\* one, the closed empty spans at the start of a word.
\* ------------------------------------------------------------------------
Count(S) == Cardinality(S)

\* the scan steps p <= pos that closed a span whose buffer was two quote marks
EmptySpanCloses ==
    {p \in 2..pos :
        /\ text[p - 1] \in Quotes
        /\ text[p] = text[p - 1]
        /\ LET st == Scan(InitScan, SubSeq(text, 1, p - 2))
           IN  st.quote = None /\ st.word = <<>>}

C15_EmptyOnlyFromEmptySpan ==
    /\ [][/\ (pc = "loop" /\ ~Closing /\ words' # words) =>
                (/\ words' = Append(words, word)
                 /\ word # <<>>)
          /\ Closing =>
                (/\ Len(words') = Len(words) + 1
                 /\ Last(words') = <<>> <=> word = <<quote>>)]_vars
    /\ [](pc \in {"loop", "done"} =>
            Count({i \in 1..Len(words) : words[i] = <<>>}) = Count(EmptySpanCloses))

C15_Witness ==
    /\ pc = "done"
    /\ Len(words) = 3
    /\ words[1] = <<>>
    /\ words[2] # <<>>
    /\ words[3] = <<>>
    /\ HasSpace(text)

\* ------------------------------------------------------------------------
\* C16: after every scan step: with no quote active the buffer holds no
\* whitespace and no quote character; with a quote active the buffer is
\* non-empty, contains the active quote character and has no whitespace
\* before its first quote character; with escape pending the buffer ends
\* with a backslash.
\* ------------------------------------------------------------------------
FirstQuoteIndex(w) ==
    CHOOSE k \in 1..Len(w) : w[k] \in Quotes /\ \A j \in 1..(k - 1) : w[j] \notin Quotes

C16_BufferShape ==
    (pc \in {"loop", "done"}) =>
        /\ quote = None => (~HasSpace(word) /\ ~HasQuote(word))
        /\ quote # None =>
              /\ word # <<>>
              /\ \E i \in 1..Len(word) : word[i] = quote
              /\ \A j \in 1..(FirstQuoteIndex(word) - 1) : ~IsSpace(word[j])
        /\ escape => (word # <<>> /\ Last(word) = BS)

\* a quote opened after bare text, holding a space, with escape pending
C16_Witness ==
    /\ pc = "loop"
    /\ quote # None
    /\ escape
    /\ word[1] = "a"
    /\ HasSpace(word)
    /\ Len(word) >= 4

\* ------------------------------------------------------------------------
\* C17: whitespace before the input does not change the result, with or
\* without the initial strip; whitespace after the input does not change it
\* when the scan of the input ends with no quote active.
\* ------------------------------------------------------------------------
Spaces(k) == [i \in 1..k |-> SP]

C17_SurroundingWhitespace ==
    (pc = "done") =>
        /\ EndFlush(Scan(InitScan, input)).words = words
        /\ \A k \in 1..MaxPad :
              /\ ParametersFromString(Spaces(k) \o input) = words
              /\ EndFlush(Scan(InitScan, Spaces(k) \o input)).words = words
              /\ quote = None => ParametersFromString(input \o Spaces(k)) = words

C17_Witness ==
    /\ pc = "done"
    /\ quote = None
    /\ Len(input) > Len(text)
    /\ HasQuote(input)
    /\ Len(words) = 2
    /\ HasSpace(words[2])

====
